---- MODULE Spec2Model ----
(***************************************************************************)
(* A model of the cdb reader of go-cdb (src/cdb.go).  The source holds two *)
(* builds of the package: one that maps the whole file into memory         *)
(* (lines 1-182, impl = "mmap") and one that reads through an io.ReaderAt  *)
(* with a scratch buffer kept in the Context (lines 184-372,               *)
(* impl = "readerAt").  Both are modelled; Init picks the build.           *)
(*                                                                         *)
(* uint32 values are kept as two 16-bit limbs [hi, lo] so that every       *)
(* operation wraps modulo 2^32 exactly as in Go.                           *)
(***************************************************************************)
EXTENDS Integers, Sequences, FiniteSets, TLC

(***************************************************************************)
(* uint32 arithmetic                                                       *)
(***************************************************************************)
W == 65536

U32(n) == [hi |-> (n \div W) % W, lo |-> n % W]

Zero32 == U32(0)

U32Add(a, b) ==
    LET l == a.lo + b.lo
    IN  [hi |-> (a.hi + b.hi + (l \div W)) % W, lo |-> l % W]

\* a - b modulo 2^32
U32Sub(a, b) ==
    LET l == a.lo - b.lo
        borrow == IF l < 0 THEN 1 ELSE 0
    IN  [hi |-> (a.hi - b.hi - borrow + W) % W, lo |-> (l + W) % W]

\* a << k for 0 <= k <= 8
U32Shl(a, k) ==
    LET m == 2 ^ k
        l == a.lo * m
    IN  [hi |-> (a.hi * m + (l \div W)) % W, lo |-> l % W]

\* a >> 8
U32Shr8(a) == [hi |-> a.hi \div 256, lo |-> (a.lo \div 256) + (a.hi % 256) * 256]

U32Less(a, b) == a.hi < b.hi \/ (a.hi = b.hi /\ a.lo < b.lo)

U32Leq(a, b) == a = b \/ U32Less(a, b)

RECURSIVE Xor8(_, _, _)
\* x ^ y for x, y < 2^n
Xor8(x, y, n) ==
    IF n = 0 THEN 0
    ELSE ((x + y) % 2) + 2 * Xor8(x \div 2, y \div 2, n - 1)

\* a ^ c for a byte c
U32XorByte(a, c) ==
    [hi |-> a.hi, lo |-> (a.lo - (a.lo % 256)) + Xor8(a.lo % 256, c, 8)]

\* a % m.  Used by find on a = h >> 8 < 2^24 (line 143); the branches cover
\* every pair of uint32 values the model produces.
U32Mod(a, m) ==
    IF U32Less(a, m) THEN a
    ELSE U32((a.hi * W + a.lo) % (m.hi * W + m.lo))

\* binary.LittleEndian.Uint32
LittleEndianUint32(b) == [hi |-> b[3] + 256 * b[4], lo |-> b[1] + 256 * b[2]]

\* the little-endian bytes of a uint32, as the file's builder writes them
PutUint32(u) == <<u.lo % 256, u.lo \div 256, u.hi % 256, u.hi \div 256>>

(***************************************************************************)
(* checksum: the cdb hash  h = 5381; h = ((h << 5) + h) ^ c                *)
(***************************************************************************)
RECURSIVE checksumFrom(_, _, _)
\* the loop over the key's bytes; the test on n.lo makes each step's value
\* be computed before the next step starts
checksumFrom(h, key, i) ==
    IF i > Len(key) THEN h
    ELSE LET n == U32XorByte(U32Add(U32Shl(h, 5), h), key[i])
         IN  IF n.lo >= 0 THEN checksumFrom(n, key, i + 1) ELSE n

checksum(key) == checksumFrom(U32(5381), key, 1)

(***************************************************************************)
(* The keys the searches are made with.  KA and KB have the same hash and  *)
(* the same length; KD falls into their bucket with another hash; KE is    *)
(* the empty key; KL1 and KL2 are 66 bytes long, agree on their first 64   *)
(* bytes (one scratch buffer) and have the same hash; KS is a 6-byte key   *)
(* with the hash of KL1.                                                   *)
(***************************************************************************)
KA == <<1, 0>>
KB == <<3, 66>>
KD == <<129>>
KE == <<>>
KPrefix == [i \in 1..64 |-> 9]
KL1 == KPrefix \o <<0, 0>>
KL2 == KPrefix \o <<1, 97>>
KS == <<151, 30, 84, 0, 5, 24>>
\* a key whose hash is 3: bucket 3, hash >> 8 = 0
KZ == <<7, 53, 61, 31, 8, 30>>

Keys == {KA, KB, KD, KE, KL1, KL2, KS, KZ}

\* checksum(key) for the keys of the model, computed once
Checksums == [key \in Keys |-> checksum(key)]

(***************************************************************************)
(* The database file.  The file is the product of an external builder      *)
(* (cdbmake): a 2048-byte header of 256 (position, numSlots) pairs, the     *)
(* records from offset 2048 on, then the 256 slot tables, each filled by   *)
(* linear probing with wraparound from slot (hash >> 8) mod numSlots.      *)
(***************************************************************************)
headerSize == 2048

NumBuckets == 256

\* A function [i \in 1..n |-> e] as a tuple of its values.  The builder's
\* tables are kept as tuples; the table of bucket b is element b + 1.
Tup(f) == f \o <<>>

Rec(k, v) == [key |-> k, val |-> v]

RECURSIVE SumTo(_, _, _)
\* f[lo] + ... + f[hi]
SumTo(f, lo, hi) ==
    IF lo > hi THEN 0
    ELSE IF lo = hi THEN f[lo]
    ELSE LET mid == (lo + hi) \div 2
         IN  SumTo(f, lo, mid) + SumTo(f, mid + 1, hi)

RECURSIVE Concat(_, _, _)
\* f[lo] \o ... \o f[hi]
Concat(f, lo, hi) ==
    IF lo > hi THEN <<>>
    ELSE IF lo = hi THEN f[lo]
    ELSE LET mid == (lo + hi) \div 2
         IN  Concat(f, lo, mid) \o Concat(f, mid + 1, hi)

RecBytes(r) ==
    PutUint32(U32(Len(r.key))) \o PutUint32(U32(Len(r.val))) \o r.key \o r.val

EmptySlot == [h |-> Zero32, p |-> 0, rec |-> 0]

RECURSIVE Probe(_, _)
\* the first free slot (0-based) at or after i, wrapping
Probe(slots, i) ==
    IF slots[i + 1].p = 0 THEN i ELSE Probe(slots, (i + 1) % Len(slots))

RECURSIVE FillTable(_, _, _, _, _)
\* the builder's insertion of the bucket's records, in file order
FillTable(slots, members, k, hs, pos) ==
    IF k > Len(members) THEN slots
    ELSE LET r == members[k]
             start == U32Mod(U32Shr8(hs[r]), U32(Len(slots))).lo
             at == Probe(slots, start)
         IN  FillTable([slots EXCEPT ![at + 1] = [h |-> hs[r], p |-> pos[r], rec |-> r]],
                       members, k + 1, hs, pos)

SlotBytes(slots) ==
    Concat(Tup([i \in 1..Len(slots) |->
                  PutUint32(slots[i].h) \o PutUint32(U32(slots[i].p))]),
           1, Len(slots))

BucketIdx == 1..NumBuckets

\* the file's three regions, from the tables the builder has filled
Assemble(recs, hs, pos, tlen, tpos, slots) ==
    [bytes |-> Concat(Tup([b \in BucketIdx |->
                             PutUint32(U32(tpos[b])) \o PutUint32(U32(tlen[b]))]),
                      1, NumBuckets)
               \o Concat(Tup([i \in 1..Len(recs) |-> RecBytes(recs[i])]), 1, Len(recs))
               \o Concat(Tup([b \in BucketIdx |-> SlotBytes(slots[b])]), 1, NumBuckets),
     recs |-> recs, hs |-> hs, pos |-> pos,
     tlen |-> tlen, tpos |-> tpos, slots |-> slots,
     wellFormed |-> TRUE]

\* the tables' places after the records, and their slots
Tables(recs, hs, pos, recsEnd, members, tlen) ==
    Assemble(recs, hs, pos, tlen,
             Tup([b \in BucketIdx |-> recsEnd + 8 * SumTo(tlen, 1, b - 1)]),
             Tup([b \in BucketIdx |->
                    FillTable(Tup([i \in 1..tlen[b] |-> EmptySlot]),
                              members[b], 1, hs, pos)]))

\* the records of each bucket (the low byte of the hash), in file order
Members(recs, tight, hs, pos, recsEnd, members) ==
    Tables(recs, hs, pos, recsEnd, members,
           Tup([b \in BucketIdx |->
                  IF tight THEN Len(members[b]) ELSE 2 * Len(members[b])]))

Place(recs, tight, hs, rlen) ==
    Members(recs, tight, hs,
            Tup([i \in 1..Len(recs) |-> headerSize + SumTo(rlen, 1, i - 1)]),
            headerSize + SumTo(rlen, 1, Len(recs)),
            Tup([b \in BucketIdx |->
                   SelectSeq(Tup([i \in 1..Len(recs) |-> i]),
                             LAMBDA i : hs[i].lo % 256 = b - 1)]))

\* recs: the records in insertion order; tight: tables of exactly as many
\* slots as records (no empty slot), else twice as many (cdbmake's choice)
Build(recs, tight) ==
    Place(recs, tight,
          Tup([i \in 1..Len(recs) |-> Checksums[recs[i].key]]),
          Tup([i \in 1..Len(recs) |-> 8 + Len(recs[i].key) + Len(recs[i].val)]))

\* the file with the uint32 at offset off overwritten: a damaged file
Patch(d, off, u) ==
    [d EXCEPT !.bytes = Tup([i \in 1..Len(d.bytes) |->
                                IF i - 1 \in off..(off + 3) THEN PutUint32(u)[i - off]
                                ELSE d.bytes[i]]),
              !.wellFormed = FALSE]

(***************************************************************************)
(* The databases the model is run on.                                      *)
(***************************************************************************)
\* cdbmake's tables (twice as many slots as records).  Bucket 36 holds KA
\* twice and KD, bucket 69 holds KS, every other bucket is empty.
DbSparse ==
    Build(<<Rec(KA, <<11>>), Rec(KD, <<12, 13>>), Rec(KA, <<14, 15, 16>>),
            Rec(KS, <<>>)>>, FALSE)

\* Full tables.  Bucket 36 has 4 slots: KD in slot 1, KB in slots 2 and 3,
\* and KA, whose probe starts at slot 2, in slot 0 (after the wraparound);
\* bucket 5 holds the empty key; bucket 69 KL2 and KL1.
DbTight ==
    Build(<<Rec(KD, <<21>>), Rec(KB, <<22, 23>>), Rec(KB, <<24>>),
            Rec(KA, <<25, 26, 27>>), Rec(KE, <<28>>), Rec(KL2, <<29>>),
            Rec(KL1, <<30, 31>>)>>, TRUE)

\* the offset of slot i (0-based) of bucket b's table
SlotOff(d, b, i) == d.tpos[b + 1] + 8 * i

\* A small file to damage: KA in slot 2 and KB in slot 3 of bucket 36's
\* table, which ends the file, KZ in slot 0 of bucket 3's two slots, and the
\* empty key twice, in slots 1 and 2 of bucket 5's four slots
DbSmall ==
    Build(<<Rec(KA, <<41>>), Rec(KB, <<42, 43>>), Rec(KZ, <<51>>),
            Rec(KE, <<52>>), Rec(KE, <<53, 54>>)>>, FALSE)

\* KB's slot with a recordPos 40 bytes beyond end-of-file
DbBadRecordPos ==
    Patch(DbSmall, SlotOff(DbSmall, 36, 3) + 4, U32(Len(DbSmall.bytes) + 40))

\* and KA's record with a dataLen that reaches beyond end-of-file
DbBadDataLen == Patch(DbBadRecordPos, DbSmall.pos[1] + 4, U32(300))

\* and the header entry of bucket 69 (KL1's, KL2's and KS's, whose hash >> 8
\* is 726190 modulo 2^20): 2^20 slots at hpos = (the offset of KA's slot)
\* - 8 * 726190 modulo 2^32, so that the first slot of these keys,
\* hpos + 8 * 726190 modulo 2^32, is KA's slot
DbBadHeader ==
    Patch(Patch(DbBadDataLen, 8 * 69,
                U32Sub(U32(SlotOff(DbSmall, 36, 2)), U32(8 * 726190))),
          8 * 69 + 4, U32(1048576))

\* and recordPos 0 in slot 1 of bucket 5's table, the slot of the first
\* record of the empty key, where the probe of the empty key starts: an
\* empty slot in front of the slot of the second record
DbHole == Patch(DbBadHeader, SlotOff(DbSmall, 5, 1) + 4, Zero32)

\* and numSlots of the header entry of bucket 3 (KZ's) overwritten by
\* 2^29 + 1: hslots << 3 is 8 in uint32, and kpos goes back to hpos, KZ's
\* slot, after every slot
DbDamaged == Patch(DbHole, 8 * 3 + 4, U32(536870913))

Databases == <<DbSparse, DbTight, DbDamaged>>

(***************************************************************************)
(* State                                                                   *)
(***************************************************************************)
VARIABLES
    impl,       \* the build: "mmap" or "readerAt"
    db,         \* the database file that was opened: Databases[db]
    closer,     \* readerAt: c.closer is not nil
    resOpen,    \* the file handle is open / the mapping is in place
    releases,   \* calls of closer.Close / syscall.Munmap made by Close
    crashed,    \* the process has touched memory that is no longer mapped
    ctx,        \* the callers' Contexts
    heap,       \* the bytes of the arrays the Contexts' buf slices refer to
    fr,         \* the call in progress on each Context: place and locals
    out,        \* what the last call on each Context returned
    iter,       \* the matches returned since the last Find / FindStart
    expect,     \* what the call in progress returns when it runs alone
    calls       \* the calls begun so far, when callers run together

vars == <<impl, db, closer, resOpen, releases, crashed,
          ctx, heap, fr, out, iter, expect, calls>>

\* the Contexts (and the callers that own them); Main makes the sequential calls
Procs == {1, 2}

Main == CHOOSE p \in Procs : \A q \in Procs : p <= q

\* len(context.buf), NewContext
BufSize == 64

(***************************************************************************)
(* Storage                                                                 *)
(***************************************************************************)
Min(a, b) == IF a < b THEN a ELSE b

\* (*os.File).ReadAt(b, off) with len(b) = n (a uint32): the bytes read and
\* the error.  A read that ends before n bytes returns io.EOF; a read of a
\* closed file os.ErrClosed; a read of no bytes nothing.
ReadAt(f, open, off, n) ==
    IF n = Zero32 THEN [bytes |-> <<>>, err |-> "nil"]
    ELSE IF ~open THEN [bytes |-> <<>>, err |-> "closed"]
    ELSE IF ~U32Less(off, U32(Len(f))) THEN [bytes |-> <<>>, err |-> "EOF"]
    ELSE LET avail == Len(f) - off.lo
             short == n.hi > 0 \/ n.lo > avail
             cnt == IF short THEN avail ELSE n.lo
         IN  [bytes |-> SubSeq(f, off.lo + 1, off.lo + cnt),
              err |-> IF short THEN "EOF" ELSE "nil"]

\* c.mmappedData[lo:hi]: a run-time panic unless lo <= hi <= len
SliceOk(f, lo, hi) == U32Leq(lo, hi) /\ U32Leq(hi, U32(Len(f)))

\* dst with its first Len(src) bytes overwritten
Overwrite(dst, src) == src \o SubSeq(dst, Len(src) + 1, Len(dst))

(***************************************************************************)
(* Context and the frame of a call                                         *)
(***************************************************************************)
\* NewContext handing out one array for every Context's buf
NewContextShared(build, b) ==
    [buf |-> IF build = "readerAt" THEN 1 ELSE 0,
     loop |-> Zero32, khash |-> Zero32, kpos |-> Zero32, hpos |-> Zero32,
     hslots |-> Zero32, dpos |-> Zero32, dlen |-> Zero32]

\* NewContext: every field zero; readerAt: buf a new array of 64 bytes,
\* array b of the heap
NewContext(build, b) ==
    [buf |-> IF build = "readerAt" THEN b ELSE 0,
     loop |-> Zero32, khash |-> Zero32, kpos |-> Zero32, hpos |-> Zero32,
     hslots |-> Zero32, dpos |-> Zero32, dlen |-> Zero32]

NoReads == [hdr |-> 0, slot |-> 0, rec |-> 0, key |-> 0, val |-> 0]

\* The frame of a call: pc, the place in the code; the locals of find and
\* match; and what the call has done so far: reads, the storage reads made;
\* failed, the read that failed; first, loop was 0 at the entry of find;
\* loop0, loop at the entry of find; slots, the offsets of the occupied slots
\* read; after, the Context at the return.
\* a returned value: the section (pos, len) of the file, and its bytes when
\* the call has them in hand (set)
NoData == [pos |-> Zero32, len |-> Zero32, bytes |-> <<>>, set |-> FALSE]

IdleFrame ==
    [pc |-> "idle", op |-> "none", key |-> <<>>, h |-> Zero32, off |-> Zero32,
     pos |-> Zero32, rklen |-> Zero32, rdlen |-> Zero32, mpos |-> Zero32,
     n |-> 0, blen |-> 0, view |-> <<>>, err |-> "nil", data |-> NoData,
     reads |-> NoReads, failed |-> "none", first |-> FALSE,
     loop0 |-> Zero32, slots |-> <<>>, after |-> NewContext("mmap", 0)]

\* the error a caller gets, read as the spec's outcomes: nil is Found, io.EOF
\* NotFound, any other error a StorageError; "panic" is a run-time panic
\* that leaves the call, "fault" a read of unmapped memory
Outcome(err) ==
    CASE err = "nil" -> "Found"
      [] err = "EOF" -> "NotFound"
      [] err \in {"bounds", "closed"} -> "StorageError"
      [] err = "panic" -> "Panic"
      [] OTHER -> "Fault"

(***************************************************************************)
(* find, one step at a time.  S = [c, f, m]: the Context, the frame of the *)
(* call and the bytes of the Context's buf array; E = [impl, file, open].  *)
(* A step is a storage read, or the code between two storage reads.        *)
(***************************************************************************)
\* find returns err (a panic inside find is recovered and returned, 125-129)
Ret(S, err) == [S EXCEPT !.f.err = err, !.f.pc = "ret"]

Count(S, what) == [S.f.reads EXCEPT ![what] = @ + 1]

\* the read made by readNums(S.f.off): 8 bytes into buf[:8] (367-369), or
\* the slice mmappedData[off : off+8] (178)
Read8(E, S, what, next) ==
    IF E.impl = "readerAt"
    THEN LET r == ReadAt(E.file, E.open, S.f.off, U32(8))
             T == [S EXCEPT !.m = Overwrite(S.m, r.bytes), !.f.reads = Count(S, what)]
         IN  IF r.err # "nil" THEN Ret([T EXCEPT !.f.failed = what], r.err)
             ELSE [T EXCEPT !.f.pc = next]
    ELSE LET T == [S EXCEPT !.f.reads = Count(S, what)]
         IN  IF ~SliceOk(E.file, S.f.off, U32Add(S.f.off, U32(8)))
             THEN Ret([T EXCEPT !.f.failed = what], "bounds")
             ELSE IF ~E.open
             THEN [T EXCEPT !.f.failed = what, !.f.err = "fault", !.f.pc = "done"]
             ELSE [T EXCEPT !.f.view = SubSeq(E.file, S.f.off.lo + 1, S.f.off.lo + 8),
                            !.f.pc = next]

\* the two numbers readNums returns (370-371, 180-181)
readNums(E, S) ==
    LET b == IF E.impl = "readerAt" THEN S.m ELSE S.f.view
    IN  <<LittleEndianUint32(SubSeq(b, 1, 4)), LittleEndianUint32(SubSeq(b, 5, 8))>>

\* (h << 3) & 2047, the offset of the header entry: line 136 / 305
headerOffset(h) == U32(U32Shl(h, 3).lo % 2048)

\* startSlot with the whole hash taken modulo hslots
startSlotAllBits(h, hpos, hslots) == U32Add(hpos, U32Shl(U32Mod(h, hslots), 3))

\* h >>= 8; h %= hslots; h <<= 3; kpos = hpos + h: lines 142-145 / 311-314
startSlot(h, hpos, hslots) == U32Add(hpos, U32Shl(U32Mod(U32Shr8(h), hslots), 3))

\* lines 131-137 / 300-306
FindEntry(E, S) ==
    IF S.c.loop = Zero32
    THEN LET h == Checksums[S.f.key]
         IN  [S EXCEPT !.f.h = h, !.f.off = headerOffset(h),
                       !.f.first = TRUE, !.f.pc = "hdrRead"]
    ELSE [S EXCEPT !.f.pc = "loop"]

\* HdrDecode without the return for an empty table: the division by hslots
\* is a run-time panic, which find recovers and returns
HdrDecodeNoEmptyCheck(E, S) ==
    LET nums == readNums(E, S)
        T == [S EXCEPT !.c.hpos = nums[1], !.c.hslots = nums[2]]
    IN  IF nums[2] = Zero32 THEN Ret(T, "bounds")
        ELSE [T EXCEPT !.c.khash = S.f.h,
                       !.c.kpos = startSlot(S.f.h, nums[1], nums[2]),
                       !.f.pc = "loop"]

\* lines 136-146 / 305-315
HdrDecode(E, S) ==
    LET nums == readNums(E, S)
        T == [S EXCEPT !.c.hpos = nums[1], !.c.hslots = nums[2]]
    IN  IF nums[2] = Zero32 THEN Ret(T, "EOF")
        ELSE [T EXCEPT !.c.khash = S.f.h,
                       !.c.kpos = startSlot(S.f.h, nums[1], nums[2]),
                       !.f.pc = "loop"]

\* LoopTest with <= for <
LoopTestOffByOne(E, S) ==
    IF U32Leq(S.c.loop, S.c.hslots)
    THEN [S EXCEPT !.f.off = S.c.kpos, !.f.pc = "slotRead"]
    ELSE Ret(S, "EOF")

\* LoopTest that leaves loop = 0 when the whole table has been visited
LoopTestRestarts(E, S) ==
    IF U32Less(S.c.loop, S.c.hslots)
    THEN [S EXCEPT !.f.off = S.c.kpos, !.f.pc = "slotRead"]
    ELSE Ret([S EXCEPT !.c.loop = Zero32], "EOF")

\* line 148 / 317 and the return of line 170 / 339
LoopTest(E, S) ==
    IF U32Less(S.c.loop, S.c.hslots)
    THEN [S EXCEPT !.f.off = S.c.kpos, !.f.pc = "slotRead"]
    ELSE Ret(S, "EOF")

\* SlotDecode without the wraparound of kpos
SlotDecodeNoWrap(E, S) ==
    LET nums == readNums(E, S)
    IN  IF nums[2] = Zero32 THEN Ret(S, "EOF")
        ELSE [S EXCEPT !.c.loop = U32Add(S.c.loop, U32(1)),
                       !.c.kpos = U32Add(S.c.kpos, U32(8)),
                       !.f.slots = Append(@, S.c.kpos),
                       !.f.h = nums[1], !.f.pos = nums[2], !.f.off = nums[2],
                       !.f.pc = IF nums[1] = S.c.khash THEN "recRead" ELSE "loop"]

\* SlotDecode that counts a slot only when its hash is the key's
SlotDecodeCountsHits(E, S) ==
    LET nums == readNums(E, S)
        kpos == U32Add(S.c.kpos, U32(8))
    IN  IF nums[2] = Zero32 THEN Ret(S, "EOF")
        ELSE [S EXCEPT !.c.loop = IF nums[1] = S.c.khash THEN U32Add(S.c.loop, U32(1))
                                  ELSE S.c.loop,
                       !.c.kpos = IF kpos = U32Add(S.c.hpos, U32Shl(S.c.hslots, 3))
                                  THEN S.c.hpos ELSE kpos,
                       !.f.slots = Append(@, S.c.kpos),
                       !.f.h = nums[1], !.f.pos = nums[2], !.f.off = nums[2],
                       !.f.pc = IF nums[1] = S.c.khash THEN "recRead" ELSE "loop"]

\* SlotDecode that reads the record of every occupied slot
SlotDecodeNoHashTest(E, S) ==
    LET nums == readNums(E, S)
        kpos == U32Add(S.c.kpos, U32(8))
    IN  IF nums[2] = Zero32 THEN Ret(S, "EOF")
        ELSE [S EXCEPT !.c.loop = U32Add(S.c.loop, U32(1)),
                       !.c.kpos = IF kpos = U32Add(S.c.hpos, U32Shl(S.c.hslots, 3))
                                  THEN S.c.hpos ELSE kpos,
                       !.f.slots = Append(@, S.c.kpos),
                       !.f.h = nums[1], !.f.pos = nums[2], !.f.off = nums[2],
                       !.f.pc = "recRead"]

\* SlotDecode that goes on to the next slot after an empty one
SlotDecodeSkipsEmpty(E, S) ==
    LET nums == readNums(E, S)
        kpos == U32Add(S.c.kpos, U32(8))
        T == [S EXCEPT !.c.loop = U32Add(S.c.loop, U32(1)),
                       !.c.kpos = IF kpos = U32Add(S.c.hpos, U32Shl(S.c.hslots, 3))
                                  THEN S.c.hpos ELSE kpos,
                       !.f.h = nums[1], !.f.pos = nums[2], !.f.off = nums[2]]
    IN  IF nums[2] = Zero32 THEN [T EXCEPT !.f.pc = "loop"]
        ELSE [T EXCEPT !.f.slots = Append(@, S.c.kpos),
                       !.f.pc = IF nums[1] = S.c.khash THEN "recRead" ELSE "loop"]

\* lines 149-158 / 318-327
SlotDecode(E, S) ==
    LET nums == readNums(E, S)
        kpos == U32Add(S.c.kpos, U32(8))
    IN  IF nums[2] = Zero32 THEN Ret(S, "EOF")
        ELSE [S EXCEPT !.c.loop = U32Add(S.c.loop, U32(1)),
                       !.c.kpos = IF kpos = U32Add(S.c.hpos, U32Shl(S.c.hslots, 3))
                                  THEN S.c.hpos ELSE kpos,
                       !.f.slots = Append(@, S.c.kpos),
                       !.f.h = nums[1], !.f.pos = nums[2], !.f.off = nums[2],
                       !.f.pc = IF nums[1] = S.c.khash THEN "recRead" ELSE "loop"]

\* lines 159-161 / 328-330 and the entry of match (348-349)
RecDecode(E, S) ==
    LET nums == readNums(E, S)
    IN  IF nums[1] = U32(Len(S.f.key))
        THEN [S EXCEPT !.f.rklen = nums[1], !.f.rdlen = nums[2],
                       !.f.mpos = U32Add(S.f.pos, U32(8)), !.f.n = 0,
                       !.f.blen = BufSize, !.f.pc = "match"]
        ELSE [S EXCEPT !.f.rklen = nums[1], !.f.rdlen = nums[2], !.f.pc = "loop"]

\* Matched with dpos left at the key
MatchedNoKeyLen(S) ==
    Ret([S EXCEPT !.c.dlen = S.f.rdlen, !.c.dpos = U32Add(S.f.pos, U32(8))], "nil")

\* match has returned true: lines 162-164 / 331-333
Matched(S) ==
    Ret([S EXCEPT !.c.dlen = S.f.rdlen,
                  !.c.dpos = U32Add(U32Add(S.f.pos, U32(8)), U32(Len(S.f.key)))],
        "nil")

\* readerAt, lines 350-354 and 363: the head of match's loop.
\* mmap, lines 173-175: match is one slice of the mapping and one comparison.
MatchTest(E, S) ==
    LET klen == Len(S.f.key)
    IN  IF E.impl = "readerAt"
        THEN IF S.f.n < klen
             THEN [S EXCEPT !.f.blen = Min(S.f.blen, klen - S.f.n), !.f.pc = "keyRead"]
             ELSE Matched(S)
        ELSE LET T == [S EXCEPT !.f.reads = Count(S, "key")]
             IN  IF ~SliceOk(E.file, S.f.mpos, U32Add(S.f.mpos, U32(klen)))
                 THEN Ret([T EXCEPT !.f.failed = "key"], "bounds")
                 ELSE IF ~E.open /\ klen > 0
                 THEN [T EXCEPT !.f.failed = "key", !.f.err = "fault", !.f.pc = "done"]
                 ELSE IF SubSeq(E.file, S.f.mpos.lo + 1, S.f.mpos.lo + klen) = S.f.key
                 THEN Matched(T)
                 ELSE [T EXCEPT !.f.pc = "loop"]

\* readerAt, lines 355-357: c.read(buf, pos) with buf cut to blen bytes
KeyRead(E, S) ==
    LET r == ReadAt(E.file, E.open, S.f.mpos, U32(S.f.blen))
        T == [S EXCEPT !.m = Overwrite(S.m, r.bytes), !.f.reads = Count(S, "key")]
    IN  IF r.err # "nil" THEN Ret([T EXCEPT !.f.failed = "key"], r.err)
        ELSE [T EXCEPT !.f.pc = "keyCmp"]

\* KeyCmp without the comparison
KeyCmpAlways(E, S) ==
    [S EXCEPT !.f.mpos = U32Add(S.f.mpos, U32(S.f.blen)),
              !.f.n = S.f.n + S.f.blen, !.f.pc = "match"]

\* readerAt, lines 358-361
KeyCmp(E, S) ==
    IF SubSeq(S.m, 1, S.f.blen) # SubSeq(S.f.key, S.f.n + 1, S.f.n + S.f.blen)
    THEN [S EXCEPT !.f.pc = "loop"]
    ELSE [S EXCEPT !.f.mpos = U32Add(S.f.mpos, U32(S.f.blen)),
                   !.f.n = S.f.n + S.f.blen, !.f.pc = "match"]

\* find has returned: the rest of FindNext (110-113, 279-282) and of Data
\* (93-98, 260-263)
AfterFind(E, S) ==
    IF S.f.err # "nil" THEN [S EXCEPT !.f.pc = "done"]
    ELSE IF E.impl = "mmap"
    THEN IF SliceOk(E.file, S.c.dpos, U32Add(S.c.dpos, S.c.dlen))
         THEN [S EXCEPT !.f.data = [pos |-> S.c.dpos, len |-> S.c.dlen, set |-> TRUE,
                                    bytes |-> SubSeq(E.file, S.c.dpos.lo + 1,
                                                     S.c.dpos.lo + S.c.dlen.lo)],
                        !.f.pc = "done"]
         ELSE [S EXCEPT !.f.err = "panic", !.f.failed = "val", !.f.pc = "done"]
    ELSE IF S.f.op = "Data"
    THEN [S EXCEPT !.f.pc = "valRead"]
    ELSE [S EXCEPT !.f.data = [pos |-> S.c.dpos, len |-> S.c.dlen, set |-> FALSE,
                               bytes |-> <<>>],
                   !.f.pc = "done"]

\* readerAt, lines 263-266: Data reads the value and returns it with read's error
ValRead(E, S) ==
    LET r == ReadAt(E.file, E.open, S.c.dpos, S.c.dlen)
    IN  [S EXCEPT !.f.data = [pos |-> S.c.dpos, len |-> S.c.dlen, set |-> TRUE,
                             bytes |-> r.bytes],
                  !.f.reads = Count(S, "val"),
                  !.f.failed = IF r.err # "nil" THEN "val" ELSE S.f.failed,
                  !.f.err = r.err, !.f.pc = "done"]

Dispatch(E, S) ==
    CASE S.f.pc = "find"       -> FindEntry(E, S)
      [] S.f.pc = "hdrRead"    -> Read8(E, S, "hdr", "hdrDecode")
      [] S.f.pc = "hdrDecode"  -> HdrDecode(E, S)
      [] S.f.pc = "loop"       -> LoopTest(E, S)
      [] S.f.pc = "slotRead"   -> Read8(E, S, "slot", "slotDecode")
      [] S.f.pc = "slotDecode" -> SlotDecode(E, S)
      [] S.f.pc = "recRead"    -> Read8(E, S, "rec", "recDecode")
      [] S.f.pc = "recDecode"  -> RecDecode(E, S)
      [] S.f.pc = "match"      -> MatchTest(E, S)
      [] S.f.pc = "keyRead"    -> KeyRead(E, S)
      [] S.f.pc = "keyCmp"     -> KeyCmp(E, S)
      [] S.f.pc = "ret"        -> AfterFind(E, S)
      [] S.f.pc = "valRead"    -> ValRead(E, S)
      [] OTHER                 -> S

\* one step of the call; the step that ends the call leaves the Context as
\* the caller finds it
Step(E, S) ==
    LET T == Dispatch(E, S)
    IN  IF T.f.pc = "done" THEN [T EXCEPT !.f.after = T.c] ELSE T

\* a call is followed for 2^MaxStepsLog steps; a call that has not returned
\* by then (a search that goes around a table of 2^29 slots) is not made
MaxStepsLog == 7

RECURSIVE RunFor(_, _, _)
\* 2^k steps of S, or as many as the call takes
RunFor(E, S, k) ==
    IF S.f.pc = "done" THEN S
    ELSE IF k = 0 THEN Step(E, S)
    ELSE RunFor(E, RunFor(E, S, k - 1), k - 1)

\* the call run to its return
Run(E, S) == RunFor(E, S, MaxStepsLog)

\* FindStart that leaves loop as it is
FindStartKeep(c) == c

\* FindStart that also takes kpos back to the start of the table
FindStartRewinds(c) == [c EXCEPT !.loop = Zero32, !.kpos = c.hpos]

\* FindStart, line 102 / 270
FindStart(c) == [c EXCEPT !.loop = Zero32]

\* the frame and the Context at the entry of find: Find (119, 289) and Data
\* (91, 258) call FindStart first, FindNext does not
Enter(op, key, c) ==
    [c |-> IF op \in {"Find", "Data"} THEN FindStart(c) ELSE c,
     f |-> [IdleFrame EXCEPT !.pc = "find", !.op = op, !.key = key,
                             !.loop0 = IF op \in {"Find", "Data"} THEN Zero32
                                       ELSE c.loop]]

\* what the caller gets back
Result(f) ==
    [op |-> f.op, key |-> f.key, err |-> f.err, data |-> f.data,
     reads |-> f.reads, failed |-> f.failed, first |-> f.first,
     loop0 |-> f.loop0, slots |-> f.slots, after |-> f.after]

NoResult == Result(IdleFrame)

\* no call in progress
NoExpect == [res |-> NoResult, c |-> NewContext("mmap", 0)]

(***************************************************************************)
(* The record of an iteration: the calls on Main's Context since the last  *)
(* FindStart (alone, or at the head of Find or Data)                       *)
(***************************************************************************)
\* no key yet (not a byte string)
NoKey == <<256>>

NoIter ==
    [key |-> NoKey, clean |-> TRUE, seen |-> <<>>, ended |-> FALSE,
     broken |-> FALSE, late |-> FALSE, slots |-> <<>>,
     endKey |-> NoKey, unstuck |-> FALSE]

\* key: the key of the first call; clean: every call used that key; seen: the
\* sections returned; ended: a call returned io.EOF; broken: a call failed;
\* late: a call returned a match after one had returned io.EOF; slots: the
\* offsets of the occupied slots read; endKey: the key of the first call that
\* returned io.EOF; unstuck: a later call for endKey, made while the
\* database was open, returned anything else
Track(it, op, key, S) ==
    LET from == IF op \in {"Find", "Data"} THEN [NoIter EXCEPT !.key = key]
                ELSE [it EXCEPT !.key = IF it.key = NoKey THEN key ELSE it.key,
                                !.clean = it.clean /\ it.key \in {NoKey, key}]
        base == [from EXCEPT !.slots = @ \o S.f.slots,
                             !.endKey = IF @ = NoKey /\ S.f.err = "EOF" THEN key ELSE @,
                             !.unstuck = @ \/ (/\ key = from.endKey
                                               /\ S.f.err \notin {"EOF", "closed", "fault"})]
    IN  CASE S.f.err = "nil" ->
               [base EXCEPT !.seen = Append(@, <<S.c.dpos, S.c.dlen>>),
                            !.late = @ \/ base.ended]
          [] S.f.err = "EOF" -> [base EXCEPT !.ended = TRUE]
          [] OTHER -> [base EXCEPT !.broken = TRUE]

(***************************************************************************)
(* Init and the calls                                                      *)
(***************************************************************************)
\* a search is followed until it has read MaxLoop occupied slots (no table
\* of a well-formed file of the model has more; KZ's in DbDamaged 2^29 + 1)
MaxLoop == 4

\* Close releases at most MaxReleases times (mmap: once per call)
MaxReleases == 2

Init ==
    /\ impl \in {"mmap", "readerAt"}
    /\ db \in DOMAIN Databases
    /\ closer = (impl = "readerAt")
    /\ resOpen = TRUE
    /\ releases = 0
    /\ crashed = FALSE
    /\ ctx = [p \in Procs |-> NewContext(impl, p)]
    /\ heap = [p \in Procs |-> IF impl = "readerAt"
                                THEN Tup([i \in 1..BufSize |-> 0]) ELSE <<>>]
    /\ fr = [p \in Procs |-> IdleFrame]
    /\ out = [p \in Procs |-> NoResult]
    /\ iter = NoIter
    /\ expect = [p \in Procs |-> NoExpect]
    /\ calls = 0

\* the bytes of the file (never written), and what the builder put into it
file == Databases[db].bytes

built == Databases[db]

Env == [impl |-> impl, file |-> file, open |-> resOpen]

\* the bytes of the array c.buf refers to
Mem(c) == IF c.buf = 0 THEN <<>> ELSE heap[c.buf]

\* the whole call op(key, c), run alone; m is the bytes of c's buf array
WholeOn(op, key, c, m) ==
    LET e == Enter(op, key, c)
    IN  Run(Env, [c |-> e.c, f |-> e.f, m |-> m])

Whole(op, key, c) == WholeOn(op, key, c, Mem(c))

Quiet == ~crashed /\ \A p \in Procs : fr[p].pc = "idle"

\* a call of Find, FindNext or Data with Main's Context
Call(op, key) ==
    /\ Quiet
    /\ \E S \in {Whole(op, key, ctx[Main])} :
           /\ S.f.pc = "done"
           /\ U32Leq(S.c.loop, U32(MaxLoop))
           /\ ctx' = [ctx EXCEPT ![Main] = S.c]
           /\ heap' = IF S.c.buf = 0 THEN heap ELSE [heap EXCEPT ![S.c.buf] = S.m]
           /\ out' = [out EXCEPT ![Main] = Result(S.f)]
           /\ crashed' = (S.f.err = "fault")
           /\ iter' = Track(iter, op, key, S)
    /\ UNCHANGED <<impl, db, closer, resOpen, releases, fr, expect, calls>>

Find(key) == Call("Find", key)

FindNext(key) == Call("FindNext", key)

Data(key) == Call("Data", key)

\* FindStart(context) with Main's Context
DoFindStart ==
    /\ Quiet
    /\ ctx' = [ctx EXCEPT ![Main] = FindStart(@)]
    /\ iter' = NoIter
    /\ UNCHANGED <<impl, db, closer, resOpen, releases, crashed,
                   heap, fr, out, expect, calls>>

\* Close.  mmap (68-71): Munmap of the slice, whatever was done before.
\* readerAt (232-239): closer.Close() if closer is not nil, then closer = nil.
Close ==
    /\ Quiet
    /\ IF impl = "mmap"
       THEN /\ releases < MaxReleases
            /\ releases' = releases + 1 /\ resOpen' = FALSE /\ closer' = closer
       ELSE IF closer
       THEN releases' = releases + 1 /\ resOpen' = FALSE /\ closer' = FALSE
       ELSE UNCHANGED <<releases, resOpen, closer>>
    /\ UNCHANGED <<impl, db, crashed, ctx, heap, fr, out, iter, expect, calls>>

Next ==
    \/ \E key \in Keys : Find(key)
    \/ \E key \in Keys : FindNext(key)
    \/ \E key \in Keys : Data(key)
    \/ DoFindStart
    \/ Close

Spec == Init /\ [][Next]_vars

(***************************************************************************)
(* Callers running together: each caller has its own Context and makes its *)
(* calls one step at a time, the steps of the callers interleaved in any   *)
(* order.  The file stays open.                                            *)
(***************************************************************************)
\* the callers make at most MaxCalls calls in all
MaxCalls == 3

\* the keys the callers look up together
ConcKeys == {KB, KL1}

\* caller p calls op(key, ctx[p]): the entry of the call
Begin(p, op, key) ==
    /\ ~crashed /\ resOpen
    /\ fr[p].pc = "idle"
    /\ calls < MaxCalls
    /\ \E e \in {Enter(op, key, ctx[p])}, S \in {Whole(op, key, ctx[p])} :
           /\ S.f.pc = "done"
           /\ U32Leq(S.c.loop, U32(MaxLoop))
           /\ ctx' = [ctx EXCEPT ![p] = e.c]
           /\ fr' = [fr EXCEPT ![p] = e.f]
           /\ expect' = [expect EXCEPT ![p] = [res |-> Result(S.f), c |-> S.c]]
    /\ calls' = calls + 1
    /\ UNCHANGED <<impl, db, closer, resOpen, releases, crashed, heap, out, iter>>

\* one step of p's call
StepOf(p) ==
    /\ fr[p].pc \notin {"idle", "done"}
    /\ \E S \in {Step(Env, [c |-> ctx[p], f |-> fr[p], m |-> Mem(ctx[p])])} :
           /\ ctx' = [ctx EXCEPT ![p] = S.c]
           /\ fr' = [fr EXCEPT ![p] = S.f]
           /\ heap' = IF S.c.buf = 0 THEN heap ELSE [heap EXCEPT ![S.c.buf] = S.m]
    /\ UNCHANGED <<impl, db, closer, resOpen, releases, crashed, out, iter,
                   expect, calls>>

\* p's call returns what fr[p] holds, and its frame is gone
Return(p) ==
    /\ fr[p].pc = "done"
    /\ fr' = [fr EXCEPT ![p] = IdleFrame]
    /\ expect' = [expect EXCEPT ![p] = NoExpect]
    /\ UNCHANGED <<impl, db, closer, resOpen, releases, crashed, ctx, heap,
                   out, iter, calls>>

ConcNext ==
    \/ \E p \in Procs, op \in {"Find", "FindNext", "Data"}, key \in ConcKeys :
           Begin(p, op, key)
    \/ \E p \in Procs : StepOf(p)
    \/ \E p \in Procs : Return(p)

ConcSpec == Init /\ [][ConcNext]_vars

(***************************************************************************)
(* What the builder stored, read off its tables and records (not off the   *)
(* bytes of the file)                                                      *)
(***************************************************************************)
\* hash >> 8, a number below 2^24
HighBits(h) == h.hi * 256 + h.lo \div 256

\* the slots of key's table in probe order: from slot (hash >> 8) mod n on,
\* around the table once
ProbeOrder(d, key) ==
    LET t == d.slots[(Checksums[key].lo % 256) + 1]
        start == IF Len(t) = 0 THEN 0 ELSE HighBits(Checksums[key]) % Len(t)
    IN  Tup([i \in 1..Len(t) |-> t[((start + i - 1) % Len(t)) + 1]])

\* the value of record r as a section <<position, length>> of the file
Section(d, r) ==
    <<U32(d.pos[r] + 8 + Len(d.recs[r].key)), U32(Len(d.recs[r].val))>>

\* the sections of the values stored under key, in probe order
MatchesOf(d, key) ==
    LET hit == SelectSeq(ProbeOrder(d, key),
                         LAMBDA sl : sl.rec # 0 /\ d.recs[sl.rec].key = key)
    IN  Tup([i \in 1..Len(hit) |-> Section(d, hit[i].rec)])

Matches == [d \in DOMAIN Databases |-> [key \in Keys |-> MatchesOf(Databases[d], key)]]

\* the records stored under key
StoredAs(key) == {r \in DOMAIN built.recs : built.recs[r].key = key}

\* the bytes of the file in the section <<pos, len>>
FileBytes(sec) == SubSeq(file, sec[1].lo + 1, sec[1].lo + sec[2].lo)

\* numSlots of the header entry the key's hash selects, read off the file
HeaderSlots(key) ==
    LET o == 8 * (Checksums[key].lo % 256)
    IN  LittleEndianUint32(SubSeq(file, o + 5, o + 8))

\* the last call on Main's Context was made on a well-formed, open database
SoundCall(ops) ==
    built.wellFormed /\ resOpen /\ out[Main].op \in ops /\ out[Main].key \in Keys

(***************************************************************************)
(* The claims                                                              *)
(***************************************************************************)
\* C1: on a well-formed database, Find(K) and the FindNext(K) calls after it
\* on the same Context return the values stored under K, each once and in
\* probe order from slot (hash >> 8) mod hslots, and the call after the last
\* match returns io.EOF: what has been returned so far is a prefix of K's
\* values in probe order, no call has failed, and a call returns io.EOF only
\* once every value has been returned.
C1_Enumerates ==
    (/\ built.wellFormed /\ resOpen
     /\ iter.key \in Keys /\ iter.clean
     /\ Matches[db][iter.key] # <<>>)
    => LET m == Matches[db][iter.key]
       IN  /\ ~iter.broken /\ ~iter.late
           /\ Len(iter.seen) <= Len(m)
           /\ iter.seen = SubSeq(m, 1, Len(iter.seen))
           /\ iter.ended => iter.seen = m

\* a key stored twice: both values returned, then io.EOF from FindNext
C1_Witness ==
    /\ built.wellFormed /\ resOpen
    /\ iter.key \in Keys /\ iter.clean
    /\ Len(Matches[db][iter.key]) = 2
    /\ iter.seen = Matches[db][iter.key]
    /\ iter.ended
    /\ out[Main].op = "FindNext"

\* C2: on a well-formed database that stores K once, with value V, Find(K)
\* returns Found with dpos = recordPos + 8 + len(K) and dlen = len(V), and
\* the bytes of that section of the file are V.
C2_RoundTrip ==
    (SoundCall({"Find"}) /\ Cardinality(StoredAs(out[Main].key)) = 1)
    => LET r == CHOOSE i \in StoredAs(out[Main].key) : TRUE
           c == ctx[Main]
       IN  /\ out[Main].err = "nil"
           /\ c.dpos = U32(built.pos[r] + 8 + Len(out[Main].key))
           /\ c.dlen = U32(Len(built.recs[r].val))
           /\ out[Main].data.pos = c.dpos /\ out[Main].data.len = c.dlen
           /\ FileBytes(<<c.dpos, c.dlen>>) = built.recs[r].val

\* a key longer than the Context's buffer, found
C2_Witness ==
    /\ SoundCall({"Find"}) /\ Cardinality(StoredAs(out[Main].key)) = 1
    /\ Len(out[Main].key) > BufSize
    /\ out[Main].err = "nil"

\* C3: on a well-formed database that does not store K, Find(K) returns
\* NotFound (io.EOF), never a StorageError.
C3_Absent ==
    (SoundCall({"Find"}) /\ StoredAs(out[Main].key) = {})
    => out[Main].err = "EOF"

\* an absent key whose hash is a stored key's: told apart by the key bytes
C3_Witness ==
    /\ SoundCall({"Find"}) /\ StoredAs(out[Main].key) = {}
    /\ out[Main].reads.key > 0
    /\ out[Main].err = "EOF"

\* C4: when the slot whose hash is the key's has a recordPos past
\* end-of-file, the lookup returns a StorageError, never NotFound: a call
\* on the open file whose read of the record header failed (it is read
\* only for such a slot) returns an error that is not io.EOF.
C4_PastEOF ==
    (resOpen /\ out[Main].failed = "rec")
    => Outcome(out[Main].err) = "StorageError"

\* C5: in every state of a Context, Find(K) on it returns what Find(K)
\* returns on a new Context: the same outcome and, when Found, the same
\* section.
Verdict(S) ==
    [outcome |-> Outcome(S.f.err),
     section |-> IF S.f.err = "nil" THEN <<S.c.dpos, S.c.dlen>> ELSE <<>>]

C5_ContextReuse ==
    \A key \in Keys :
        Verdict(Whole("Find", key, ctx[Main]))
          = Verdict(WholeOn("Find", key, NewContext(impl, Main),
                            IF impl = "readerAt" THEN Tup([i \in 1..BufSize |-> 0])
                            ELSE <<>>))

\* a Context in the middle of an iteration, and another key that Find finds
C5_Witness ==
    /\ resOpen /\ ctx[Main].loop # Zero32 /\ out[Main].err = "nil"
    /\ \E key \in Keys \ {out[Main].key} :
           Whole("Find", key, ctx[Main]).f.err = "nil"

\* C6: when numSlots of the header entry the key's hash selects is 0, the
\* lookup returns NotFound after one storage read, the read of the header
\* entry: no slot and no record is read, and the Context's loop is 0.
C6_EmptyBucket ==
    (/\ resOpen
     /\ out[Main].op \in {"Find", "Data"} \/ out[Main].first
     /\ out[Main].key \in Keys
     /\ HeaderSlots(out[Main].key) = Zero32)
    => /\ out[Main].err = "EOF"
       /\ out[Main].reads = [NoReads EXCEPT !.hdr = 1]
       /\ ctx[Main].loop = Zero32

C6_Witness ==
    /\ resOpen /\ out[Main].first /\ out[Main].op = "FindNext"
    /\ HeaderSlots(out[Main].key) = Zero32
    /\ out[Main].err = "EOF"

\* kpos is a slot of the table (hpos, hslots): hpos <= kpos < hpos + 8 * hslots
\* and kpos - hpos is a multiple of 8, in the integers
InTable(c) ==
    /\ U32Leq(c.hpos, c.kpos)
    /\ LET d == U32Sub(c.kpos, c.hpos)
       IN  /\ d.lo % 8 = 0
           /\ U32Less([hi |-> d.hi \div 8, lo |-> d.lo \div 8 + (d.hi % 8) * 8192],
                      c.hslots)

\* the table (hpos, hslots) ends at or before 2^32: hpos + 8 * hslots <= 2^32
TableFits(c) ==
    /\ c.hslots.hi < 8192
    /\ LET e == U32Add(c.hpos, U32Shl(c.hslots, 3))
       IN  U32Less(c.hpos, e) \/ (e = Zero32 /\ c.hslots # Zero32)

\* on a well-formed database, Find of a stored key returns its first value
\* in probe order
FindsFirst ==
    (SoundCall({"Find"}) /\ Matches[db][out[Main].key] # <<>>)
    => /\ out[Main].err = "nil"
       /\ <<ctx[Main].dpos, ctx[Main].dlen>> = Matches[db][out[Main].key][1]

\* C7 as stated: whenever loop > 0, kpos is a slot boundary inside the
\* current table, hpos <= kpos < hpos + 8 * hslots with (kpos - hpos) a
\* multiple of 8; and a key whose probe starts near the end of the table and
\* whose slot lies at a lower index is found.
C7_AsStated ==
    /\ ctx[Main].loop # Zero32 => InTable(ctx[Main])
    /\ FindsFirst

\* C7, for tables that end at or before 2^32 (every table of a well-formed
\* file does): whenever loop > 0 and hpos + 8 * hslots <= 2^32, kpos is a
\* slot boundary inside the table; and Find returns a stored key's first
\* value in probe order, also when its slot is reached after the wraparound.
C7_InTable ==
    /\ (ctx[Main].loop # Zero32 /\ TableFits(ctx[Main])) => InTable(ctx[Main])
    /\ FindsFirst

\* Find has read more than one slot and found the key in a slot below the
\* one its probe started at
C7_Witness ==
    /\ SoundCall({"Find"}) /\ out[Main].err = "nil"
    /\ out[Main].reads.slot >= 2
    /\ ctx[Main].loop # Zero32 /\ TableFits(ctx[Main])
    /\ U32Leq(ctx[Main].kpos,
              U32Add(ctx[Main].hpos,
                     U32(8 * (HighBits(Checksums[out[Main].key])
                                % ctx[Main].hslots.lo))))

\* C8: once Close has been called, however many times, the file handle or
\* the mapping has been released exactly once.
C8_ReleasedOnce == ~resOpen => releases = 1

\* C9: searches that run together on the same open database, each with its
\* own Context, are independent: whatever the interleaving of their steps,
\* each call returns, and leaves in its Context, what it does when it runs
\* alone from the Context it was given.
C9_Independent ==
    \A p \in Procs :
        fr[p].pc = "done"
        => /\ Result(fr[p]) = expect[p].res
           /\ ctx[p] = expect[p].c

\* a call has come to its end while the other caller's call, which has
\* read key bytes into its buffer, is still running
C9_Witness ==
    \E p, q \in Procs :
        /\ p # q /\ impl = "readerAt"
        /\ fr[p].pc = "done" /\ fr[p].err = "nil" /\ fr[p].reads.key > 0
        /\ fr[q].pc \notin {"idle", "done"} /\ fr[q].reads.key > 0

\* C10: for every database, key and state of the Context, Find(K) has the
\* outcome and leaves the Context that FindStart followed by FindNext(K) do,
\* and Data(K) returns the bytes of the section Find(K) delimits, and is
\* NotFound in exactly the cases Find(K) is.
C10_DerivedAgree ==
    \A key \in Keys :
        LET c == ctx[Main]
            a == Whole("Find", key, c)
            b == Whole("FindNext", key, FindStart(c))
            d == Whole("Data", key, c)
        IN  /\ a.c = b.c /\ a.f.err = b.f.err /\ a.f.data = b.f.data
            /\ d.c = a.c
            /\ (d.f.err = "EOF") = (a.f.err = "EOF")
            /\ a.f.err = "nil"
               => /\ d.f.err = "nil"
                  /\ d.f.data.bytes = FileBytes(<<a.c.dpos, a.c.dlen>>)

\* C11: when the dataLen of a matched record makes its value extend beyond
\* end-of-file, Data (and Find and FindNext where they hand out the value's
\* bytes) returns a StorageError: it does not panic and returns no bytes.
\* A call on the open file whose read of the value failed returns an error
\* that is neither nil nor io.EOF, and no bytes.
C11_ValueBeyondEOF ==
    (resOpen /\ out[Main].failed = "val")
    => /\ Outcome(out[Main].err) = "StorageError"
       /\ out[Main].data.bytes = <<>>

\* a / 8
U32Shr3(a) == [hi |-> a.hi \div 8, lo |-> a.lo \div 8 + (a.hi % 8) * 8192]

\* the slot after the slot at offset s of the table (hpos, hslots): index
\* ((s - hpos) / 8 + 1) mod hslots
NextSlot(c, s) ==
    LET i == U32Add(U32Shr3(U32Sub(s, c.hpos)), U32(1))
    IN  U32Add(c.hpos, U32Shl(IF i = c.hslots THEN Zero32 ELSE i, 3))

\* 8 * hslots < 2^32
SmallTable(c) == c.hslots.hi < 8192

\* a call that returns Found leaves kpos on the slot after the matched one
ResumesAfterMatch ==
    (out[Main].op # "none" /\ out[Main].err = "nil")
    => /\ out[Main].slots # <<>>
       /\ out[Main].after.kpos
            = NextSlot(out[Main].after, out[Main].slots[Len(out[Main].slots)])

\* loop never exceeds hslots, and a call adds to loop the number of occupied
\* slots it has read
CountsSlots ==
    /\ U32Leq(ctx[Main].loop, ctx[Main].hslots)
    /\ out[Main].op # "none"
       => out[Main].after.loop = U32Add(out[Main].loop0, U32(Len(out[Main].slots)))

\* no occupied slot has been read twice since the last FindStart
NoSlotTwice ==
    \A i, j \in DOMAIN iter.slots : iter.slots[i] = iter.slots[j] => i = j

\* C12 as stated: a call that returns Found leaves loop incremented and kpos
\* on the slot after the matched one (wrapped); in every state
\* loop <= hslots; every read of an occupied slot adds exactly 1 to loop; and
\* between two FindStart resets no occupied slot is read twice.
C12_AsStated == ResumesAfterMatch /\ CountsSlots /\ NoSlotTwice

\* C12, for tables of fewer than 2^29 slots (8 * hslots < 2^32, as in every
\* well-formed file): a call that returns Found leaves kpos on the slot after
\* the matched one (wrapped), and between two FindStart resets no occupied
\* slot is read twice; and in every state, whatever hslots, loop <= hslots
\* and a call adds exactly 1 to loop for every occupied slot it reads.
C12_Resumes ==
    /\ SmallTable(out[Main].after) => ResumesAfterMatch
    /\ SmallTable(ctx[Main]) => NoSlotTwice
    /\ CountsSlots

\* FindNext has gone on from loop > 0, read more than one slot and found the
\* next value
C12_Witness ==
    /\ resOpen /\ SmallTable(ctx[Main])
    /\ out[Main].op = "FindNext" /\ out[Main].err = "nil"
    /\ out[Main].loop0 # Zero32
    /\ Len(out[Main].slots) >= 2
    /\ Len(iter.slots) >= 3

\* the uint32 stored at offset off of the file; none past its end
StoredAt(off) ==
    IF off.hi = 0 /\ off.lo + 4 <= Len(file)
    THEN LittleEndianUint32(SubSeq(file, off.lo + 1, off.lo + 4))
    ELSE [hi |-> -1, lo |-> -1]

\* the bytes stored at off .. off + n - 1 of the file; none past its end
BytesAt(off, n) ==
    IF off.hi = 0 /\ off.lo + n <= Len(file)
    THEN SubSeq(file, off.lo + 1, off.lo + n)
    ELSE <<-1>>

\* the slots among those read by the call r whose stored hash is khash, and
\* those whose record, moreover, has a key of the length of the call's key
HashHits(r) ==
    {i \in DOMAIN r.slots : StoredAt(r.slots[i]) = r.after.khash}

LengthHits(r) ==
    {i \in HashHits(r) :
        StoredAt(StoredAt(U32Add(r.slots[i], U32(4)))) = U32(Len(r.key))}

\* the reads of key bytes that one comparison of a key of n bytes makes: a
\* slice of the mapping, or one read for every BufSize bytes
KeyReads(n) == IF impl = "mmap" THEN 1 ELSE (n + BufSize - 1) \div BufSize

\* C13: when a call returns Found, the slot it matched stores the hash
\* khash and the position of a record whose keyLen is len(key) and whose
\* key bytes are key; a record header is read only for a slot whose hash is
\* khash, and key bytes are read only for a record whose keyLen is len(key).
C13_FoundIsSound ==
    LET r == out[Main]
        s == r.slots[Len(r.slots)]
        pos == StoredAt(U32Add(s, U32(4)))
    IN  r.op # "none" =>
        /\ r.err = "nil" =>
             /\ r.slots # <<>>
             /\ StoredAt(s) = r.after.khash
             /\ StoredAt(pos) = U32(Len(r.key))
             /\ BytesAt(U32Add(pos, U32(8)), Len(r.key)) = r.key
        /\ r.reads.rec <= Cardinality(HashHits(r))
        /\ r.reads.key <= KeyReads(Len(r.key)) * Cardinality(LengthHits(r))

\* a call has returned Found at the third slot it read, after it passed over
\* two records of the same hash and key length but of another key
C13_Witness ==
    /\ out[Main].err = "nil" /\ out[Main].op # "none"
    /\ Len(out[Main].slots) = 3
    /\ Cardinality(LengthHits(out[Main])) = 3
    /\ out[Main].reads.rec = 3

\* the calls that can be made next on Main's Context return: each within
\* 2^MaxStepsLog steps, but for a search around a table of 2^29 slots or more
NextCallReturns ==
    (resOpen /\ Quiet) =>
    \A op \in {"Find", "FindNext"}, key \in Keys :
        \E S \in {Whole(op, key, ctx[Main])} :
            S.f.pc = "done" \/ ~SmallTable(S.c)

\* a returned Find or FindNext has read at most hslots - loop slots, loop
\* being the Context's at the entry of find (0 after FindStart)
ReadsBounded ==
    out[Main].op \in {"Find", "FindNext"}
    => U32Leq(U32(out[Main].reads.slot),
              U32Sub(out[Main].after.hslots, out[Main].loop0))

\* a Find or FindNext that no read has failed and that has left loop = hslots
\* without a match has returned NotFound
ExhaustedIsNotFound ==
    (/\ out[Main].op \in {"Find", "FindNext"}
     /\ out[Main].failed = "none" /\ out[Main].err # "nil"
     /\ out[Main].after.loop = out[Main].after.hslots)
    => Outcome(out[Main].err) = "NotFound"

\* a Find or FindNext made on an open database returns Found, NotFound or a
\* StorageError
ReturnsOutcome ==
    (out[Main].op \in {"Find", "FindNext"} /\ out[Main].err # "fault")
    => Outcome(out[Main].err) \in {"Found", "NotFound", "StorageError"}

\* C14: on every file, well-formed or not, and from every state of the
\* Context, a Find or FindNext terminates after reading at most
\* hslots - loop slots and returns Found, NotFound or a StorageError; when
\* the search ends with loop = hslots and no match, it returns NotFound.
C14_Terminates ==
    NextCallReturns /\ ReadsBounded /\ ExhaustedIsNotFound /\ ReturnsOutcome

\* the parts of C14 other than the outcome
C14_Bounded == NextCallReturns /\ ReadsBounded /\ ExhaustedIsNotFound

\* the call r has read an empty slot
ReadEmptySlot(r) ==
    r.op # "none" /\ r.failed # "slot" /\ r.reads.slot = Len(r.slots) + 1

\* the sections of the values of the records of key that lie behind an empty
\* slot in the probe order of key: the table as the builder laid it out, its
\* slots as the file has them
HiddenBy(key) ==
    LET b == Checksums[key].lo % 256
        t == built.slots[b + 1]
        n == Len(t)
        at(i) == (HighBits(Checksums[key]) + i) % n
        empty(i) == StoredAt(U32(SlotOff(built, b, at(i)) + 4)) = Zero32
    IN  {Section(built, t[at(i) + 1].rec) :
            i \in {j \in 0..(n - 1) :
                      /\ t[at(j) + 1].rec # 0
                      /\ built.recs[t[at(j) + 1].rec].key = key
                      /\ \E k \in 0..(j - 1) : empty(k)}}

\* C15: a call that reads a slot with recordPos = 0 returns NotFound at once:
\* loop counts the occupied slots read before it and kpos is still on the
\* empty slot; and no call for a key returns a record that lies behind an
\* empty slot in the probe order of the key, though its hash and key match.
C15_StopsAtEmpty ==
    LET r == out[Main]
    IN  /\ ReadEmptySlot(r) =>
             /\ Outcome(r.err) = "NotFound"
             /\ r.after.loop = U32Add(r.loop0, U32(Len(r.slots)))
             /\ StoredAt(U32Add(r.after.kpos, U32(4))) = Zero32
             /\ (r.slots # <<>> /\ SmallTable(r.after))
                => r.after.kpos = NextSlot(r.after, r.slots[Len(r.slots)])
        /\ (r.op # "none" /\ r.err = "nil" /\ r.key \in Keys)
           => <<r.after.dpos, r.after.dlen>> \notin HiddenBy(r.key)

\* a search for a key has stopped at an empty slot behind which a record of
\* the key lies
C15_Witness ==
    /\ ReadEmptySlot(out[Main]) /\ out[Main].key \in Keys
    /\ HiddenBy(out[Main].key) # {}
    /\ out[Main].err = "EOF"

\* the last call was a FindNext, made while the database was open, for the
\* key of an earlier call that returned NotFound
AfterTheEnd ==
    /\ iter.endKey # NoKey
    /\ out[Main].op = "FindNext" /\ out[Main].key = iter.endKey
    /\ out[Main].err \notin {"closed", "fault"}

FindStartFrame ==
    DoFindStart =>
        /\ ctx'[Main] = [ctx[Main] EXCEPT !.loop = Zero32]
        /\ \A p \in Procs \ {Main} : ctx'[p] = ctx[p]
        /\ UNCHANGED <<heap, resOpen, closer, releases, crashed, out>>

\* a Find or FindNext that returns NotFound leaves dpos and dlen
NotFoundFrame ==
    (/\ out'[Main] # out[Main] \/ ctx'[Main] # ctx[Main]
     /\ out'[Main].op \in {"Find", "FindNext"}
     /\ Outcome(out'[Main].err) = "NotFound")
    => /\ ctx'[Main].dpos = ctx[Main].dpos
       /\ ctx'[Main].dlen = ctx[Main].dlen

\* between two calls the Context is as the last call left it, but for loop,
\* which a FindStart has set to 0
OnlyLoopReset ==
    out[Main].op # "none"
    => ctx[Main] \in {out[Main].after, [out[Main].after EXCEPT !.loop = Zero32]}

\* C17: FindStart changes only loop, to 0: it reads nothing from the file,
\* cannot fail, and leaves khash, kpos, hpos, hslots, dpos and dlen; and a
\* Find or FindNext that returns NotFound leaves dpos and dlen, which are
\* written only when a match is found.
C17_Frame == []OnlyLoopReset /\ [][FindStartFrame /\ NotFoundFrame]_vars

\* FindStart has set loop to 0 after a call that returned NotFound with
\* loop > 0, kpos inside the table and dpos, dlen of an earlier match
C17_Witness ==
    /\ out[Main].op = "FindNext" /\ out[Main].err = "EOF"
    /\ out[Main].after.loop # Zero32
    /\ out[Main].after.kpos # out[Main].after.hpos
    /\ out[Main].after.dpos # Zero32
    /\ ctx[Main] = [out[Main].after EXCEPT !.loop = Zero32]

(***************************************************************************)
(* The slot arithmetic of find on its own: the hash, hpos and hslots drawn *)
(* from sets that hold the corners of uint32                               *)
(***************************************************************************)
ArithHashes ==
    {[hi |-> a, lo |-> b] : a \in {0, 1, 255, 256, 32768, 65535},
                            b \in {0, 1, 255, 256, 2047, 65535}}

\* 0, 2048, 2^31, 2^32 - 2048, 2^32 - 8
ArithPos ==
    {U32(0), U32(2048), [hi |-> 32768, lo |-> 0], [hi |-> 65535, lo |-> 63488],
     [hi |-> 65535, lo |-> 65528]}

\* 1, 2, 3, 255, 2^20, 2^29 + 1, 2^32 - 1
ArithSlots ==
    {U32(1), U32(2), U32(3), U32(255), [hi |-> 16, lo |-> 0],
     [hi |-> 8192, lo |-> 1], [hi |-> 65535, lo |-> 65535]}

\* find entered with loop = 0 and a key of hash h
ArithInit ==
    /\ impl \in {"mmap", "readerAt"}
    /\ db \in DOMAIN Databases
    /\ closer = (impl = "readerAt")
    /\ resOpen = TRUE
    /\ releases = 0
    /\ crashed = FALSE
    /\ ctx = [p \in Procs |-> NewContext(impl, p)]
    /\ heap = [p \in Procs |-> IF impl = "readerAt"
                                THEN Tup([i \in 1..BufSize |-> 0]) ELSE <<>>]
    /\ \E h \in ArithHashes :
           fr = [p \in Procs |-> IF p = Main
                                 THEN [IdleFrame EXCEPT !.pc = "find", !.h = h,
                                                        !.first = TRUE]
                                 ELSE IdleFrame]
    /\ out = [p \in Procs |-> NoResult]
    /\ iter = NoIter
    /\ expect = [p \in Procs |-> NoExpect]
    /\ calls = 0

\* line 136 / 305: the offset of the header entry
Locate ==
    /\ fr[Main].pc = "find"
    /\ fr' = [fr EXCEPT ![Main].off = headerOffset(fr[Main].h),
                        ![Main].pc = "hdrDecode"]
    /\ UNCHANGED <<impl, db, closer, resOpen, releases, crashed, ctx, heap,
                   out, iter, expect, calls>>

\* lines 136-145 / 305-314 for a header entry (hpos, hslots), hslots > 0
Start(hpos, hslots) ==
    /\ fr[Main].pc = "hdrDecode"
    /\ hslots # Zero32
    /\ ctx' = [ctx EXCEPT ![Main].hpos = hpos, ![Main].hslots = hslots,
                          ![Main].khash = fr[Main].h,
                          ![Main].kpos = startSlot(fr[Main].h, hpos, hslots)]
    /\ fr' = [fr EXCEPT ![Main].pc = "loop"]
    /\ UNCHANGED <<impl, db, closer, resOpen, releases, crashed, heap,
                   out, iter, expect, calls>>

ArithNext ==
    \/ Locate
    \/ \E hpos \in ArithPos, hslots \in ArithSlots : Start(hpos, hslots)

ArithSpec == ArithInit /\ [][ArithNext]_vars

\* (h >> 8) mod hslots, as an integer (h >> 8 < 2^24)
StartIndex(h, hslots) ==
    LET top == h.hi * 256 + h.lo \div 256
    IN  IF hslots.hi >= 256 THEN top ELSE top % (hslots.hi * W + hslots.lo)

\* the offset of the header entry is 8 * (h & 0xFF)
HeaderEntry ==
    fr[Main].pc \in {"hdrDecode", "loop"}
    => fr[Main].off = U32(8 * (fr[Main].h.lo % 256))

\* kpos is hpos + 8 * ((h >> 8) mod hslots) in uint32
StartsAtIndex ==
    fr[Main].pc = "loop"
    => U32Sub(ctx[Main].kpos, ctx[Main].hpos)
         = U32(8 * StartIndex(ctx[Main].khash, ctx[Main].hslots))

\* C18 as stated: for every hash h, (h << 3) & 2047 is 8 * (h & 0xFF); and
\* for every hslots > 0 the first kpos is hpos + 8 * ((h >> 8) mod hslots),
\* inside the table: hpos <= kpos < hpos + 8 * hslots.
C18_AsStated ==
    /\ HeaderEntry
    /\ StartsAtIndex
    /\ fr[Main].pc = "loop" => InTable(ctx[Main])

\* C18, amended: for every hash h, (h << 3) & 2047 is 8 * (h & 0xFF); for
\* every hslots > 0 the first kpos is hpos + 8 * ((h >> 8) mod hslots)
\* modulo 2^32; and it lies inside the table when the table ends at or
\* before 2^32 (hpos + 8 * hslots <= 2^32).
C18_SlotArithmetic ==
    /\ HeaderEntry
    /\ StartsAtIndex
    /\ (fr[Main].pc = "loop" /\ TableFits(ctx[Main])) => InTable(ctx[Main])

\* a hash with bits above the low 16, a table of several slots that ends
\* before 2^32, and a first slot that is not slot 0
C18_Witness ==
    /\ fr[Main].pc = "loop" /\ TableFits(ctx[Main])
    /\ ctx[Main].khash.hi = 32768 /\ ctx[Main].khash.lo = 2047
    /\ ctx[Main].hslots = U32(255)
    /\ ctx[Main].kpos # ctx[Main].hpos
    /\ fr[Main].off = U32(2040)

====
